---- MODULE Spec2Model ----
(***************************************************************************)
(* psychopy.visual.shape: BaseShapeStim and ShapeStim.                     *)
(*                                                                         *)
(* One stimulus (of either class) on one window that owns one OpenGL       *)
(* context.  Every method of the stimulus is a pure operator from the      *)
(* object (a record of its attributes) to a result record                  *)
(*     [self, calls, exc, ret]                                             *)
(* holding the object afterwards, the calls the method made on its         *)
(* collaborators (OpenGL, the window, the tessellator, the transform       *)
(* pipeline) in program order, the exception it raised and its return      *)
(* value.  An action applies one method, runs its GL calls on the context  *)
(* and records what it did.                                                *)
(***************************************************************************)
EXTENDS Integers, Sequences, FiniteSets

VARIABLES
    win,        \* the window: [haveShaders]
    stim,       \* the stimulus: a record of its attributes
    gl,         \* the OpenGL context state shared by all stimuli of the window
    calls,      \* collaborator calls made by the last operation
    last,       \* the last operation: [op, exc, ret, keepMatrix, dirty, closed, again]
    pre,        \* the OpenGL context state when the last operation started
    coalesce,   \* progress through "vertices, size, pos, read": [phase, tess, upd]
    run         \* consecutive vertex assignments: [k, tess]

vars == <<win, stim, gl, calls, last, pre, coalesce, run>>

-----------------------------------------------------------------------------
(* Values *)

None == "None"

BaseShapeStim == "BaseShapeStim"
ShapeStim == "ShapeStim"

\* A numpy array of vertices: its .shape, the loop it was made from and
\* whether it holds that loop's points or the triangles tessellated from it.
Array(src, shape, tess) == [src |-> src, shape |-> shape, tess |-> tess]

\* Vertex inputs: a triangle, a convex quadrilateral, a two-point line and a
\* flat list of three numbers (not Nx2).
Tri == Array("tri", <<3, 2>>, FALSE)
Quad == Array("quad", <<4, 2>>, FALSE)
Line == Array("line", <<2, 2>>, FALSE)
Flat3 == Array("flat3", <<3>>, FALSE)

ValidVertices == {Tri, Quad, Line}
VertexInputs == ValidVertices \cup {Flat3}

\* More vertex inputs: the single point [(0, 0)], three collinear points, and
\* a loop on which the tessellator goes wrong.
Point == Array("point", <<1, 2>>, FALSE)
Collinear == Array("collinear", <<3, 2>>, FALSE)
Odd == Array("odd", <<3, 2>>, FALSE)

TessVertices == {Tri, Line, Point, Collinear}
TessInputs == TessVertices \cup {Odd, Flat3}

Sizes == {1, 2}
Positions == {0, 1}
Oris == {0, 90}
UnitsSet == {"pix", "norm"}

\* The cap on the consecutive vertex assignments that are counted.
MaxRun == 3

\* The greatest line width that OpenGL supports.
MaxLineWidth == 127

\* No pixel array computed yet (the attribute is absent from __dict__).
NoPix == [unset |-> TRUE]

Call(fn, arg) == [fn |-> fn, arg |-> arg]

\* A method that returns None.
NoRet == [none |-> TRUE]

\* The result of a method.
Result(o, cs, exc, ret) == [self |-> o, calls |-> cs, exc |-> exc, ret |-> ret]

\* How many of the calls cs are calls of fn.
RECURSIVE Count(_, _)
Count(cs, fn) ==
    IF cs = <<>> THEN 0
    ELSE (IF Head(cs).fn = fn THEN 1 ELSE 0) + Count(Tail(cs), fn)

-----------------------------------------------------------------------------
(* Collaborators that live outside shape.py *)

\* psychopy.tools.arraytools.val2array(value, withNone=True, withScalar=True,
\* length=2): the array of the value when its last dimension is 2.
val2arrayOk(value) == value.shape[Len(value.shape)] = 2

\* psychopy.contrib.tesselate.tesselate(loops): the triangle list of the loop,
\* N-2 triangles for a simple convex polygon of N >= 3 points, [] for a
\* degenerate loop (fewer than 3 points, or collinear points), and a list
\* that is no whole number of triangles when the tessellator goes wrong.
tesselate(loops) ==
    CASE loops.src = "odd" -> Array(loops.src, <<4, 2>>, TRUE)
      [] loops.src = "collinear" -> Array(loops.src, <<0, 2>>, TRUE)
      [] loops.shape[1] >= 3 /\ loops.src \notin {"odd", "collinear"} ->
            Array(loops.src, <<3 * (loops.shape[1] - 2), 2>>, TRUE)
      [] OTHER -> Array(loops.src, <<0, 2>>, TRUE)

\* The transform pipeline: scale by size, rotate by ori, translate by pos,
\* convert from units to pixels.  The result is kept symbolic: the array and
\* the parameters it was computed from.
convertToPix(verts, o) ==
    [of |-> verts, size |-> o.size, pos |-> o.pos, ori |-> o.ori, units |-> o.units]

\* BaseVisualStim._updateVertices: recompute the pixel arrays from the
\* tessellated vertices (or the raw vertices when there are none) and from
\* the border, and mark the stimulus clean.  numpy cannot broadcast size
\* (2 numbers) against vertices whose last dimension is not 2.
updateVertices(o) ==
    LET verts == IF o.cls = ShapeStim THEN o.tesselVertices ELSE o.vertices
        c == <<Call("_updateVertices", None)>>
    IN IF verts.shape[Len(verts.shape)] # 2
       THEN Result(o, c, "ValueError", NoRet)
       ELSE Result([o EXCEPT !.verticesPix = convertToPix(verts, o),
                             !.borderPix = IF o.cls = ShapeStim
                                           THEN convertToPix(o.border, o)
                                           ELSE @,
                             !.needVertexUpdate = FALSE],
                   c, None, NoRet)

\* ContainerMixin._borderPix: the pixel border, recomputed on access when dirty.
borderPix(o) ==
    IF o.needVertexUpdate
    THEN LET r == updateVertices(o)
         IN Result(r.self, r.calls, r.exc,
                   IF r.exc = None THEN r.self.borderPix ELSE NoRet)
    ELSE Result(o, <<>>, None, o.borderPix)

\* The setters of pos, ori and units (BaseVisualStim, WindowMixin).
setPos(o, value) == [o EXCEPT !.pos = value, !.needVertexUpdate = TRUE]
setOri(o, value) == [o EXCEPT !.ori = value, !.needVertexUpdate = TRUE]
setUnits(o, value) == [o EXCEPT !.units = value, !.needVertexUpdate = TRUE]

-----------------------------------------------------------------------------
(* shape.py *)

\* A lineWidth setter that warns for every class of stimulus.
BaseShapeStim_lineWidth_warnsAll(o, value) ==
    Result([o EXCEPT !.lineWidth = value],
           IF value > MaxLineWidth
           THEN <<Call("logging.warning", "lineWidth")>>
           ELSE <<>>,
           None, NoRet)

\* BaseShapeStim.lineWidth
BaseShapeStim_lineWidth(o, value) ==
    Result([o EXCEPT !.lineWidth = value],
           IF o.isLine /\ value > MaxLineWidth
           THEN <<Call("logging.warning", "lineWidth")>>
           ELSE <<>>,
           None, NoRet)

\* psychopy.colors.Color: the colours of the model are black, red, cyan and
\* white, each the set of the channels that are full in it.  Adding and
\* subtracting colours clips in every channel.
Channels(c) ==
    CASE c = "black" -> {}
      [] c = "red" -> {"r"}
      [] c = "cyan" -> {"gb"}
      [] c = "white" -> {"r", "gb"}

Named(chs) == CHOOSE c \in {"black", "red", "cyan", "white"} : Channels(c) = chs

Color_add(a, b) == Named(Channels(a) \cup Channels(b))
Color_sub(a, b) == Named(Channels(a) \ Channels(b))

\* Color(value, 'rgb255') of a triple of 0s and 255s.
Color_rgb255(value) ==
    Named((IF value[1] = 255 THEN {"r"} ELSE {})
            \cup (IF value[2] = 255 /\ value[3] = 255 THEN {"gb"} ELSE {}))

\* An operand of + or - that is no colour (None) makes the operation raise.
Arith(operation, a, b, o, field) ==
    IF a = None \/ b = None
    THEN Result(o, <<>>, "TypeError", NoRet)
    ELSE Result([o EXCEPT ![field] = IF operation = "+" THEN Color_add(a, b)
                                     ELSE Color_sub(a, b)],
                <<>>, None, NoRet)

\* ColorMixin.colorSpace, assigned when the argument is not None.
setColorSpace(o, colorSpace) ==
    IF colorSpace # None THEN [o EXCEPT !.colorSpace = colorSpace] ELSE o

\* BaseShapeStim.color
BaseShapeStim_color_fillOnly(o, color) ==
    Result([o EXCEPT !.fillColor = color], <<>>, None, NoRet)

BaseShapeStim_color(o, color) ==
    Result([o EXCEPT !.fillColor = color, !.lineColor = color], <<>>, None, NoRet)

\* setLineRGB / setFillRGB that take an operation they do not know for an
\* assignment.
BaseShapeStim_setRGB_lenient(o, field, value, operation) ==
    Result([o EXCEPT ![field] = Color_rgb255(value)],
           <<Call("logging.error", operation)>>, None, NoRet)

\* BaseShapeStim.setLineRGB and BaseShapeStim.setFillRGB, which differ in
\* the colour they set: field is "lineColor" or "fillColor".
BaseShapeStim_setRGB(o, field, value, operation) ==
    CASE operation \in {"", "="} ->
            Result([o EXCEPT ![field] = Color_rgb255(value)], <<>>, None, NoRet)
      [] operation \in {"+", "-"} ->
            Arith(operation, o[field], Color_rgb255(value), o, field)
      [] OTHER -> Result(o, <<Call("logging.error", operation)>>, None, NoRet)

\* BaseShapeStim.setLineColor and BaseShapeStim.setFillColor, which differ in
\* the colour they set: the colour space is assigned first, then the
\* operation is looked at.
BaseShapeStim_setLineOrFillColor(o, field, color, colorSpace, operation) ==
    LET o1 == setColorSpace(o, colorSpace)
    IN CASE operation \in {"", "="} ->
               Result([o1 EXCEPT ![field] = color], <<>>, None, NoRet)
         [] operation \in {"+", "-"} ->
               Arith(operation, o1[field], color, o1, field)
         [] OTHER -> Result(o1, <<Call("logging.error", operation)>>, None, NoRet)

BaseShapeStim_setLineColor(o, color, colorSpace, operation) ==
    BaseShapeStim_setLineOrFillColor(o, "lineColor", color, colorSpace, operation)

BaseShapeStim_setFillColor(o, color, colorSpace, operation) ==
    BaseShapeStim_setLineOrFillColor(o, "fillColor", color, colorSpace, operation)

\* BaseShapeStim.setColor: the line colour, then the fill colour.
BaseShapeStim_setColor(o, color, colorSpace, operation) ==
    LET l == BaseShapeStim_setLineColor(o, color, colorSpace, operation)
        f == BaseShapeStim_setFillColor(l.self, color, colorSpace, operation)
    IN IF l.exc # None THEN l
       ELSE Result(f.self, l.calls \o f.calls, f.exc, NoRet)

\* BaseShapeStim.closeShape
BaseShapeStim_closeShape(o, value) == [o EXCEPT !.closeShape = value]

\* BaseShapeStim.interpolate
BaseShapeStim_interpolate(o, value) == [o EXCEPT !.interpolate = value]

\* A size setter that throws the tessellation away.
BaseShapeStim_size_dropsTessellation(o, value) ==
    [o EXCEPT !.size = value, !.needVertexUpdate = TRUE,
              !.tesselVertices = o.vertices]

\* BaseShapeStim.size
BaseShapeStim_size(o, value) ==
    [o EXCEPT !.size = value, !.needVertexUpdate = TRUE]

\* BaseShapeStim.vertices: the value is stored, then its shape is checked.
BaseShapeStim_vertices(o, value) ==
    LET o1 == [o EXCEPT !.vertices = value]
    IN IF ~(value.shape = <<2>>
            \/ (Len(value.shape) = 2 /\ value.shape[2] = 2))
       THEN Result(o1, <<>>, "ValueError", NoRet)
       ELSE Result([o1 EXCEPT !.needVertexUpdate = TRUE], <<>>, None, NoRet)

\* _tesselate that runs the tessellator whether the shape is closed or not.
ShapeStim_tesselate_always(o, newVertices) ==
    LET o1 == [o EXCEPT !.border = newVertices]
        tessVertices == tesselate(newVertices)
        cs == <<Call("glPushMatrix", None),
                Call("tesselate.tesselate", newVertices),
                Call("glPopMatrix", None)>>
    IN IF tessVertices.shape[1] = 0
       THEN Result([o1 EXCEPT !.closeShape = FALSE,
                              !.tesselVertices = newVertices],
                   cs, None, NoRet)
       ELSE IF tessVertices.shape[1] % 3 # 0
       THEN Result(o1, cs, "TesselateError", NoRet)
       ELSE Result([o1 EXCEPT !.tesselVertices = tessVertices], cs, None, NoRet)

\* _tesselate that leaves closeShape alone when the tessellator returns [].
ShapeStim_tesselate_keepsClosed(o, newVertices) ==
    LET o1 == [o EXCEPT !.border = newVertices]
        tessVertices == tesselate(newVertices)
        cs == IF o1.closeShape
              THEN <<Call("glPushMatrix", None),
                     Call("tesselate.tesselate", newVertices),
                     Call("glPopMatrix", None)>>
              ELSE <<>>
    IN IF ~o1.closeShape \/ tessVertices.shape[1] = 0
       THEN Result([o1 EXCEPT !.tesselVertices = newVertices], cs, None, NoRet)
       ELSE IF tessVertices.shape[1] % 3 # 0
       THEN Result(o1, cs, "TesselateError", NoRet)
       ELSE Result([o1 EXCEPT !.tesselVertices = tessVertices], cs, None, NoRet)

\* _tesselate that raises on an empty result instead of opening the shape.
ShapeStim_tesselate_raisesOnEmpty(o, newVertices) ==
    LET o1 == [o EXCEPT !.border = newVertices]
        tessVertices == tesselate(newVertices)
        cs == IF o1.closeShape
              THEN <<Call("glPushMatrix", None),
                     Call("tesselate.tesselate", newVertices),
                     Call("glPopMatrix", None)>>
              ELSE <<>>
    IN IF ~o1.closeShape
       THEN Result([o1 EXCEPT !.tesselVertices = newVertices], cs, None, NoRet)
       ELSE IF tessVertices.shape[1] = 0 \/ tessVertices.shape[1] % 3 # 0
       THEN Result(o1, cs, "TesselateError", NoRet)
       ELSE Result([o1 EXCEPT !.tesselVertices = tessVertices], cs, None, NoRet)

\* _tesselate that stores whatever the tessellator returns.
ShapeStim_tesselate_unchecked(o, newVertices) ==
    LET o1 == [o EXCEPT !.border = newVertices]
        tessVertices == tesselate(newVertices)
        cs == IF o1.closeShape
              THEN <<Call("glPushMatrix", None),
                     Call("tesselate.tesselate", newVertices),
                     Call("glPopMatrix", None)>>
              ELSE <<>>
    IN IF ~o1.closeShape \/ tessVertices.shape[1] = 0
       THEN Result([o1 EXCEPT !.closeShape = FALSE,
                              !.tesselVertices = newVertices],
                   cs, None, NoRet)
       ELSE Result([o1 EXCEPT !.tesselVertices = tessVertices], cs, None, NoRet)

\* _tesselate that closes an open shape again when there are triangles.
ShapeStim_tesselate_recloses(o, newVertices) ==
    LET o1 == [o EXCEPT !.border = newVertices]
        tessVertices == tesselate(newVertices)
    IN IF tessVertices.shape[1] = 0
       THEN Result([o1 EXCEPT !.closeShape = FALSE,
                              !.tesselVertices = newVertices],
                   <<>>, None, NoRet)
       ELSE IF tessVertices.shape[1] % 3 # 0
       THEN Result(o1, <<>>, "TesselateError", NoRet)
       ELSE Result([o1 EXCEPT !.closeShape = TRUE,
                              !.tesselVertices = tessVertices],
                   <<>>, None, NoRet)

\* _tesselate that opens the shape whenever it is called.
ShapeStim_tesselate_opens(o, newVertices) ==
    Result([o EXCEPT !.border = newVertices, !.closeShape = FALSE,
                     !.tesselVertices = newVertices],
           <<>>, None, NoRet)

\* _tesselate that leaves the border as it was.
ShapeStim_tesselate_staleBorder(o, newVertices) ==
    LET tessVertices == tesselate(newVertices)
        cs == IF o.closeShape
              THEN <<Call("glPushMatrix", None),
                     Call("tesselate.tesselate", newVertices),
                     Call("glPopMatrix", None)>>
              ELSE <<>>
    IN IF ~o.closeShape \/ tessVertices.shape[1] = 0
       THEN Result([o EXCEPT !.closeShape = FALSE,
                             !.tesselVertices = newVertices],
                   cs, None, NoRet)
       ELSE IF tessVertices.shape[1] % 3 # 0
       THEN Result(o, cs, "TesselateError", NoRet)
       ELSE Result([o EXCEPT !.tesselVertices = tessVertices], cs, None, NoRet)

\* The winding rule of the tessellator when no shape has set another.
default_winding_rule == "GLU_TESS_WINDING_ODD"

\* The calls of _tesselate on a closed shape: the winding rule of the shape,
\* if it has one, is set on the shared tessellator before the tessellation
\* and the default rule after it.
TesselateCalls(o, newVertices, restore) ==
    <<Call("glPushMatrix", None)>>
    \o (IF o.windingRule # None
        THEN <<Call("gluTessProperty", o.windingRule)>> ELSE <<>>)
    \o <<Call("tesselate.tesselate", newVertices), Call("glPopMatrix", None)>>
    \o (IF o.windingRule # None /\ restore
        THEN <<Call("gluTessProperty", default_winding_rule)>> ELSE <<>>)

\* _tesselate that leaves the winding rule of the shape on the tessellator.
ShapeStim_tesselate_noRestore(o, newVertices) ==
    LET o1 == [o EXCEPT !.border = newVertices]
        tessVertices == tesselate(newVertices)
        cs == IF o1.closeShape THEN TesselateCalls(o1, newVertices, FALSE) ELSE <<>>
    IN IF ~o1.closeShape \/ tessVertices.shape[1] = 0
       THEN Result([o1 EXCEPT !.closeShape = FALSE,
                              !.tesselVertices = newVertices],
                   cs, None, NoRet)
       ELSE IF tessVertices.shape[1] % 3 # 0
       THEN Result(o1, cs, "TesselateError", NoRet)
       ELSE Result([o1 EXCEPT !.tesselVertices = tessVertices], cs, None, NoRet)

\* ShapeStim._tesselate
ShapeStim_tesselate(o, newVertices) ==
    LET o1 == [o EXCEPT !.border = newVertices]
        tessVertices == tesselate(newVertices)
        cs == IF o1.closeShape THEN TesselateCalls(o1, newVertices, TRUE) ELSE <<>>
    IN IF ~o1.closeShape \/ tessVertices.shape[1] = 0
       THEN Result([o1 EXCEPT !.closeShape = FALSE,
                              !.tesselVertices = newVertices],
                   cs, None, NoRet)
       ELSE IF tessVertices.shape[1] % 3 # 0
       THEN Result(o1, cs, "TesselateError", NoRet)
       ELSE Result([o1 EXCEPT !.tesselVertices = tessVertices], cs, None, NoRet)

\* ShapeStim.vertices that also recomputes the pixel vertices at once.
ShapeStim_vertices_eager(o, newVerts) ==
    IF ~val2arrayOk(newVerts)
    THEN Result(o, <<>>, "ValueError", NoRet)
    ELSE LET r == ShapeStim_tesselate([o EXCEPT !.vertices = newVerts,
                                                !.needVertexUpdate = TRUE],
                                      newVerts)
             u == updateVertices(r.self)
         IN IF r.exc # None
            THEN Result(r.self, <<Call("_tesselate", newVerts)>> \o r.calls,
                        r.exc, r.ret)
            ELSE Result(u.self,
                        <<Call("_tesselate", newVerts)>> \o r.calls \o u.calls,
                        u.exc, NoRet)

\* ShapeStim.vertices that leaves the tessellation to the next read.
ShapeStim_vertices_deferred(o, newVerts) ==
    IF ~val2arrayOk(newVerts)
    THEN Result(o, <<>>, "ValueError", NoRet)
    ELSE Result([o EXCEPT !.vertices = newVerts,
                          !.border = newVerts,
                          !.tesselVertices = newVerts,
                          !.needVertexUpdate = TRUE],
                <<>>, None, NoRet)

\* ShapeStim.vertices
ShapeStim_vertices(o, newVerts) ==
    IF ~val2arrayOk(newVerts)
    THEN Result(o, <<>>, "ValueError", NoRet)
    ELSE LET r == ShapeStim_tesselate([o EXCEPT !.vertices = newVerts,
                                                !.needVertexUpdate = TRUE],
                                      newVerts)
         IN Result(r.self, <<Call("_tesselate", newVerts)>> \o r.calls,
                   r.exc, r.ret)

\* verticesPix that recomputes on every access.
verticesPix_always(o) ==
    LET r == updateVertices(o)
    IN Result(r.self, r.calls, r.exc,
              IF r.exc = None THEN r.self.verticesPix ELSE NoRet)

\* ShapeStim.verticesPix (BaseShapeStim inherits the same getter from
\* ContainerMixin): recompute on access when dirty.
verticesPix(o) ==
    IF o.needVertexUpdate
    THEN LET r == updateVertices(o)
         IN Result(r.self, r.calls, r.exc,
                   IF r.exc = None THEN r.self.verticesPix ELSE NoRet)
    ELSE Result(o, <<>>, None, o.verticesPix)

\* The calls that load null textures on texture units 0 and 1.
NullTextures ==
    <<Call("glActiveTexture", 0), Call("glEnable", "GL_TEXTURE_2D"),
      Call("glBindTexture", "0"),
      Call("glActiveTexture", 1), Call("glEnable", "GL_TEXTURE_2D"),
      Call("glBindTexture", "0")>>

\* The calls that set antialiasing from the interpolate attribute.
Interpolate(o) ==
    IF o.interpolate
    THEN <<Call("glEnable", "GL_LINE_SMOOTH"), Call("glEnable", "GL_MULTISAMPLE")>>
    ELSE <<Call("glDisable", "GL_LINE_SMOOTH"), Call("glDisable", "GL_MULTISAMPLE")>>

DrawArrays(mode, count) ==
    Call("glDrawArrays", [mode |-> mode, first |-> 0, count |-> count])

\* BaseShapeStim.draw, the part before the first primitive: select the
\* window, bind the shader, read the pixel vertices, push the matrix.
BaseShapeStim_drawSetup(o, w, keepMatrix, r) ==
    <<Call("_selectWindow", None)>>
    \o (IF w.haveShaders THEN <<Call("glUseProgram", "_progSignedFrag")>> ELSE <<>>)
    \o r.calls
    \o (IF r.exc # None THEN <<>>
        ELSE (IF ~keepMatrix
              THEN <<Call("glPushMatrix", None), Call("win.setScale", "pix")>>
              ELSE <<>>)
             \o NullTextures
             \o Interpolate(o)
             \o <<Call("glVertexPointer", r.ret),
                  Call("glEnableClientState", "GL_VERTEX_ARRAY")>>)

\* The fill of BaseShapeStim.draw without the test of the fill colour.
BaseShapeStim_drawFill_anyColour(o, nVerts) ==
    IF nVerts > 2
    THEN <<Call("glColor4f", o.fillColor), DrawArrays("GL_POLYGON", nVerts)>>
    ELSE <<>>

\* BaseShapeStim.draw, the fill: a polygon over all the pixel vertices.
BaseShapeStim_drawFill(o, nVerts) ==
    IF nVerts > 2 /\ o.fillColor # None
    THEN <<Call("glColor4f", o.fillColor), DrawArrays("GL_POLYGON", nVerts)>>
    ELSE <<>>

\* BaseShapeStim.draw, the border: a loop or a strip over the pixel vertices.
BaseShapeStim_drawBorder(o, nVerts) ==
    IF o.lineColor # None /\ o.lineWidth # 0
    THEN <<Call("glLineWidth", o.lineWidth), Call("glColor4f", o.lineColor),
           DrawArrays(IF o.closeShape THEN "GL_LINE_LOOP" ELSE "GL_LINE_STRIP",
                      nVerts)>>
    ELSE <<>>

\* The end of a draw that never pops the matrix.
DrawTeardown_noPop(w, keepMatrix) ==
    <<Call("glDisableClientState", "GL_VERTEX_ARRAY")>>
    \o (IF w.haveShaders THEN <<Call("glUseProgram", "0")>> ELSE <<>>)

\* The end of a draw that pops the matrix before it unbinds the program.
DrawTeardown_popFirst(w, keepMatrix) ==
    <<Call("glDisableClientState", "GL_VERTEX_ARRAY")>>
    \o (IF ~keepMatrix THEN <<Call("glPopMatrix", None)>> ELSE <<>>)
    \o (IF w.haveShaders THEN <<Call("glUseProgram", "0")>> ELSE <<>>)

\* The end of both draw methods.
DrawTeardown(w, keepMatrix) ==
    <<Call("glDisableClientState", "GL_VERTEX_ARRAY")>>
    \o (IF w.haveShaders THEN <<Call("glUseProgram", "0")>> ELSE <<>>)
    \o (IF ~keepMatrix THEN <<Call("glPopMatrix", None)>> ELSE <<>>)

\* BaseShapeStim.draw
BaseShapeStim_draw(o, w, keepMatrix) ==
    LET r == verticesPix(o)
        setup == BaseShapeStim_drawSetup(o, w, keepMatrix, r)
    IN IF r.exc # None
       THEN Result(r.self, setup, r.exc, NoRet)
       ELSE LET nVerts == r.ret.of.shape[1]
            IN Result(r.self,
                      setup
                      \o BaseShapeStim_drawFill(r.self, nVerts)
                      \o BaseShapeStim_drawBorder(r.self, nVerts)
                      \o DrawTeardown(w, keepMatrix),
                      None, NoRet)

\* The start of ShapeStim.draw that pushes the matrix whatever keepMatrix is.
ShapeStim_drawSetup_alwaysPush(o, w, keepMatrix) ==
    <<Call("_selectWindow", None)>>
    \o <<Call("glPushMatrix", None), Call("win.setScale", "pix")>>
    \o (IF w.haveShaders THEN <<Call("glUseProgram", "_progSignedFrag")>> ELSE <<>>)
    \o NullTextures
    \o Interpolate(o)
    \o <<Call("glEnableClientState", "GL_VERTEX_ARRAY")>>

\* ShapeStim.draw, the part before the first primitive: select the window,
\* push the matrix, bind the shader.
ShapeStim_drawSetup(o, w, keepMatrix) ==
    <<Call("_selectWindow", None)>>
    \o (IF ~keepMatrix
        THEN <<Call("glPushMatrix", None), Call("win.setScale", "pix")>>
        ELSE <<>>)
    \o (IF w.haveShaders THEN <<Call("glUseProgram", "_progSignedFrag")>> ELSE <<>>)
    \o NullTextures
    \o Interpolate(o)
    \o <<Call("glEnableClientState", "GL_VERTEX_ARRAY")>>

\* ShapeStim.draw, the fill: the tessellated triangles.  The pixel vertices
\* are read only when closeShape is true.
ShapeStim_drawFill(o) ==
    IF ~o.closeShape
    THEN Result(o, <<>>, None, NoRet)
    ELSE LET r == verticesPix(o)
         IN IF r.exc # None THEN r
            ELSE IF r.ret.of.shape[1] > 2 /\ o.fillColor # None
            THEN Result(r.self,
                        r.calls \o <<Call("glVertexPointer", r.ret),
                                     Call("glColor4f", o.fillColor),
                                     DrawArrays("GL_TRIANGLES", r.ret.of.shape[1])>>,
                        None, NoRet)
            ELSE Result(r.self, r.calls, None, NoRet)

\* The border of ShapeStim.draw that closes every line.
ShapeStim_drawBorder_alwaysLoop(o) ==
    IF o.lineColor # None /\ o.lineWidth # 0
    THEN LET r == borderPix(o)
         IN IF r.exc # None THEN r
            ELSE Result(r.self,
                        r.calls \o <<Call("glVertexPointer", r.ret),
                                     Call("glLineWidth", o.lineWidth),
                                     Call("glColor4f", o.lineColor),
                                     DrawArrays("GL_LINE_LOOP", r.ret.of.shape[1])>>,
                        None, NoRet)
    ELSE Result(o, <<>>, None, NoRet)

\* ShapeStim.draw, the border: a loop or a strip over the pixel border.
ShapeStim_drawBorder(o) ==
    IF o.lineColor # None /\ o.lineWidth # 0
    THEN LET r == borderPix(o)
         IN IF r.exc # None THEN r
            ELSE Result(r.self,
                        r.calls \o <<Call("glVertexPointer", r.ret),
                                     Call("glLineWidth", o.lineWidth),
                                     Call("glColor4f", o.lineColor),
                                     DrawArrays(IF o.closeShape THEN "GL_LINE_LOOP"
                                                ELSE "GL_LINE_STRIP",
                                                r.ret.of.shape[1])>>,
                        None, NoRet)
    ELSE Result(o, <<>>, None, NoRet)

\* ShapeStim.draw that submits the border before the fill.
ShapeStim_draw_borderFirst(o, w, keepMatrix) ==
    LET setup == ShapeStim_drawSetup(o, w, keepMatrix)
        b == ShapeStim_drawBorder(o)
        f == ShapeStim_drawFill(b.self)
    IN Result(f.self,
              setup \o b.calls \o f.calls \o DrawTeardown(w, keepMatrix),
              None, NoRet)

\* ShapeStim.draw
ShapeStim_draw(o, w, keepMatrix) ==
    LET setup == ShapeStim_drawSetup(o, w, keepMatrix)
        f == ShapeStim_drawFill(o)
    IN IF f.exc # None
       THEN Result(f.self, setup \o f.calls, f.exc, NoRet)
       ELSE LET b == ShapeStim_drawBorder(f.self)
            IN IF b.exc # None
               THEN Result(b.self, setup \o f.calls \o b.calls, b.exc, NoRet)
               ELSE Result(b.self,
                           setup \o f.calls \o b.calls \o DrawTeardown(w, keepMatrix),
                           None, NoRet)

-----------------------------------------------------------------------------
(* The OpenGL context *)

\* A fresh context: no program, one matrix on the stack, texturing and line
\* smoothing off, multisampling on, no client state.
GLInit ==
    [program |-> "0",
     matrix |-> <<"identity">>,
     activeTexture |-> 0,
     texture2D |-> <<FALSE, FALSE>>,
     boundTexture |-> <<"0", "0">>,
     lineSmooth |-> FALSE,
     multisample |-> TRUE,
     vertexArray |-> FALSE,
     windingRule |-> default_winding_rule]

\* The effect of one call on the context.
GLStep(g, c) ==
    CASE c.fn = "glUseProgram" -> [g EXCEPT !.program = c.arg]
      [] c.fn = "glPushMatrix" ->
            [g EXCEPT !.matrix = Append(@, @[Len(@)])]
      [] c.fn = "glPopMatrix" ->
            [g EXCEPT !.matrix = SubSeq(@, 1, Len(@) - 1)]
      [] c.fn = "win.setScale" ->
            [g EXCEPT !.matrix[Len(g.matrix)] = c.arg]
      [] c.fn = "glActiveTexture" -> [g EXCEPT !.activeTexture = c.arg]
      [] c.fn = "glBindTexture" ->
            [g EXCEPT !.boundTexture[g.activeTexture + 1] = c.arg]
      [] c.fn = "glEnable" /\ c.arg = "GL_TEXTURE_2D" ->
            [g EXCEPT !.texture2D[g.activeTexture + 1] = TRUE]
      [] c.fn = "glEnable" /\ c.arg = "GL_LINE_SMOOTH" ->
            [g EXCEPT !.lineSmooth = TRUE]
      [] c.fn = "glEnable" /\ c.arg = "GL_MULTISAMPLE" ->
            [g EXCEPT !.multisample = TRUE]
      [] c.fn = "glDisable" /\ c.arg = "GL_LINE_SMOOTH" ->
            [g EXCEPT !.lineSmooth = FALSE]
      [] c.fn = "glDisable" /\ c.arg = "GL_MULTISAMPLE" ->
            [g EXCEPT !.multisample = FALSE]
      [] c.fn = "glEnableClientState" -> [g EXCEPT !.vertexArray = TRUE]
      [] c.fn = "glDisableClientState" -> [g EXCEPT !.vertexArray = FALSE]
      [] c.fn = "gluTessProperty" -> [g EXCEPT !.windingRule = c.arg]
      [] OTHER -> g

RECURSIVE GLExec(_, _)
GLExec(g, cs) ==
    IF cs = <<>> THEN g ELSE GLExec(GLStep(g, Head(cs)), Tail(cs))

-----------------------------------------------------------------------------
(* Construction *)

\* An attribute that the object does not have.
NoArray == [absent |-> TRUE]

FillColors == {None, "red"}
LineColors == {None, "black"}
LineWidths == {0, 2}

\* BaseShapeStim.__init__ up to the assignment of vertices; p holds the
\* arguments closeShape, interpolate, lineWidth, fillColor, lineColor and
\* colorSpace, whether the object is a psychopy.visual.Line, and the
\* windingRule that ShapeStim.__init__ sets; the other arguments keep their
\* defaults.
BaseShapeStim_init(cls, p) ==
    BaseShapeStim_size(
        [cls |-> cls,
         pos |-> 0,
         closeShape |-> p.closeShape,
         lineWidth |-> p.lineWidth,
         interpolate |-> p.interpolate,
         fillColor |-> p.fillColor,
         lineColor |-> p.lineColor,
         colorSpace |-> p.colorSpace,
         isLine |-> p.isLine,
         windingRule |-> p.windingRule,
         ori |-> 0,
         units |-> "pix",
         size |-> 1,
         vertices |-> NoArray,
         border |-> NoArray,
         tesselVertices |-> NoArray,
         needVertexUpdate |-> TRUE,
         verticesPix |-> NoPix,
         borderPix |-> NoPix],
        1)

\* The constructor of either class, which ends by assigning the vertices.
New(cls, p) ==
    IF cls = ShapeStim
    THEN ShapeStim_vertices(BaseShapeStim_init(cls, p), p.vertices)
    ELSE BaseShapeStim_vertices(BaseShapeStim_init(cls, p), p.vertices)

\* Constructor arguments: every style, and the default style with either
\* closeShape.
Params ==
    [closeShape : BOOLEAN, interpolate : BOOLEAN, lineWidth : LineWidths,
     fillColor : FillColors, lineColor : LineColors, vertices : ValidVertices,
     colorSpace : {"rgb"}, isLine : {FALSE}, windingRule : {None}]

DefaultStyle ==
    {p \in Params : /\ p.interpolate
                    /\ p.lineWidth = 2
                    /\ p.fillColor = None
                    /\ p.lineColor = "black"}

NoArgs == [none |-> TRUE]
NoCoalesce == [phase |-> 0, tess |-> 0, runs |-> 0, upd |-> 0, closed |-> FALSE]
NoRun == [k |-> 0, runs |-> 0, closed |-> 0]

\* The state after the constructor of a stimulus of class cls with arguments
\* p on a window with or without shaders.
Constructed(cls, p, hs) ==
    /\ win = [haveShaders |-> hs]
    /\ stim = New(cls, p).self
    /\ gl = GLExec(GLInit, New(cls, p).calls)
    /\ calls = New(cls, p).calls
    /\ pre = GLInit
    /\ last = [op |-> "__init__", exc |-> None, ret |-> NoRet,
               keepMatrix |-> FALSE, dirty |-> TRUE,
               closed |-> p.closeShape, again |-> FALSE, args |-> NoArgs]
    /\ coalesce = NoCoalesce
    /\ run = NoRun

Init ==
    \E cls \in {BaseShapeStim, ShapeStim}, p \in DefaultStyle :
        Constructed(cls, p, TRUE)

InitDraw ==
    \E cls \in {BaseShapeStim, ShapeStim}, p \in Params, hs \in BOOLEAN :
        Constructed(cls, p, hs)

\* Constructor arguments of a ShapeStim of every style over the vertices
\* that the constructor accepts.
TessParams ==
    [closeShape : BOOLEAN, interpolate : {TRUE}, lineWidth : LineWidths,
     fillColor : FillColors, lineColor : LineColors, vertices : TessVertices,
     colorSpace : {"rgb"}, isLine : {FALSE}, windingRule : {None}]

InitTess == \E p \in TessParams : Constructed(ShapeStim, p, TRUE)

\* Constructor arguments of the stimuli whose colours and line width are
\* set: a triangle of either class, or a psychopy.visual.Line, which is a
\* ShapeStim of two points that is not closed.
ColorSpaces == {"rgb", "hsv"}

ColorParams ==
    {p \in [closeShape : BOOLEAN, interpolate : {TRUE}, lineWidth : {2},
            fillColor : FillColors, lineColor : LineColors, vertices : {Tri, Line},
            colorSpace : ColorSpaces, isLine : BOOLEAN, windingRule : {None}] :
        IF p.isLine THEN p.vertices = Line /\ ~p.closeShape
        ELSE p.vertices = Tri /\ p.closeShape}

InitColor ==
    \E cls \in {BaseShapeStim, ShapeStim}, p \in ColorParams :
        /\ p.isLine => cls = ShapeStim
        /\ Constructed(cls, p, TRUE)

-----------------------------------------------------------------------------
(* Operations *)

Tessellations(cs) == Count(cs, "_tesselate")
TessellatorRuns(cs) == Count(cs, "tesselate.tesselate")
Updates(cs) == Count(cs, "_updateVertices")

\* Progress through the sequence "assign vertices, assign size, assign pos,
\* read verticesPix", with the tessellations and the transform passes it made.
NextCoalesce(op, r) ==
    LET step == [phase |-> coalesce.phase + 1,
                 tess |-> coalesce.tess + Tessellations(r.calls),
                 runs |-> coalesce.runs + TessellatorRuns(r.calls),
                 upd |-> coalesce.upd + Updates(r.calls),
                 closed |-> coalesce.closed]
    IN CASE op = "vertices" /\ r.exc = None ->
                [phase |-> 1,
                 tess |-> Tessellations(r.calls),
                 runs |-> TessellatorRuns(r.calls),
                 upd |-> Updates(r.calls),
                 closed |-> stim.closeShape]
         [] op = "size" /\ coalesce.phase = 1 -> step
         [] op = "pos" /\ coalesce.phase = 2 -> step
         [] op = "verticesPix" /\ coalesce.phase = 3 -> step
         [] OTHER -> NoCoalesce

\* The vertex assignments made in a row, the tessellator runs they made and
\* how many of them found the shape closed; a read of verticesPix right
\* after them keeps the count.
NextRun(op, r) ==
    CASE op = "vertices" /\ r.exc = None ->
            LET old == IF last.op = "vertices" THEN run ELSE NoRun
            IN [k |-> old.k + 1,
                runs |-> old.runs + TessellatorRuns(r.calls),
                closed |-> old.closed + (IF stim.closeShape THEN 1 ELSE 0)]
      [] op = "verticesPix" /\ last.op = "vertices" -> run
      [] OTHER -> NoRun

\* One operation with arguments args and result r takes place.
ApplyWith(op, r, keepMatrix, args) ==
    /\ stim' = r.self
    /\ calls' = r.calls
    /\ pre' = gl
    /\ gl' = GLExec(gl, r.calls)
    /\ last' = [op |-> op, exc |-> r.exc, ret |-> r.ret,
                keepMatrix |-> keepMatrix,
                dirty |-> stim.needVertexUpdate,
                closed |-> stim.closeShape,
                again |-> last.op = op,
                args |-> args]
    /\ coalesce' = NextCoalesce(op, r)
    /\ run' = NextRun(op, r)
    /\ UNCHANGED win

Apply(op, r, keepMatrix) == ApplyWith(op, r, keepMatrix, NoArgs)

Returns(o) == Result(o, <<>>, None, NoRet)

SetVertices ==
    \E value \in VertexInputs :
        /\ run.k < MaxRun
        /\ Apply("vertices",
                 IF stim.cls = ShapeStim
                 THEN ShapeStim_vertices(stim, value)
                 ELSE BaseShapeStim_vertices(stim, value),
                 FALSE)

\* A vertex assignment to a ShapeStim, over the wider inputs.
SetAnyVertices ==
    \E value \in TessInputs :
        /\ run.k < MaxRun
        /\ ApplyWith("vertices", ShapeStim_vertices(stim, value), FALSE,
                     [value |-> value])

SetSize ==
    \E value \in Sizes : Apply("size", Returns(BaseShapeStim_size(stim, value)), FALSE)

SetPos ==
    \E value \in Positions : Apply("pos", Returns(setPos(stim, value)), FALSE)

SetOri ==
    \E value \in Oris : Apply("ori", Returns(setOri(stim, value)), FALSE)

SetUnits ==
    \E value \in UnitsSet : Apply("units", Returns(setUnits(stim, value)), FALSE)

SetLineWidth ==
    \E value \in LineWidths :
        ApplyWith("lineWidth", BaseShapeStim_lineWidth(stim, value), FALSE,
                  [value |-> value])

\* The line widths around the greatest that OpenGL supports.
AnyLineWidths == {2, MaxLineWidth, 200}

SetAnyLineWidth ==
    \E value \in AnyLineWidths :
        ApplyWith("lineWidth", BaseShapeStim_lineWidth(stim, value), FALSE,
                  [value |-> value])

\* The arguments of the colour methods.
ColorArgs == {None, "red", "white"}
RGBArgs == {<<255, 0, 0>>, <<0, 255, 255>>}
ColorSpaceArgs == {None} \cup ColorSpaces
KnownOperations == {"", "=", "+", "-"}
Operations == KnownOperations \cup {"*"}

ColorCalls == [color : ColorArgs, colorSpace : ColorSpaceArgs, operation : Operations]
RGBCalls == [value : RGBArgs, operation : Operations]

AssignColor ==
    \E color \in ColorArgs :
        ApplyWith("color", BaseShapeStim_color(stim, color), FALSE, [color |-> color])

SetColor ==
    \E a \in ColorCalls :
        ApplyWith("setColor",
                  BaseShapeStim_setColor(stim, a.color, a.colorSpace, a.operation),
                  FALSE, a)

SetLineColor ==
    \E a \in ColorCalls :
        ApplyWith("setLineColor",
                  BaseShapeStim_setLineColor(stim, a.color, a.colorSpace, a.operation),
                  FALSE, a)

SetFillColor ==
    \E a \in ColorCalls :
        ApplyWith("setFillColor",
                  BaseShapeStim_setFillColor(stim, a.color, a.colorSpace, a.operation),
                  FALSE, a)

SetLineRGB ==
    \E a \in RGBCalls :
        ApplyWith("setLineRGB",
                  BaseShapeStim_setRGB(stim, "lineColor", a.value, a.operation),
                  FALSE, a)

SetFillRGB ==
    \E a \in RGBCalls :
        ApplyWith("setFillRGB",
                  BaseShapeStim_setRGB(stim, "fillColor", a.value, a.operation),
                  FALSE, a)

SetInterpolate ==
    \E value \in BOOLEAN :
        Apply("interpolate", Returns(BaseShapeStim_interpolate(stim, value)), FALSE)

ReadVerticesPix == Apply("verticesPix", verticesPix(stim), FALSE)

Draw ==
    \E keepMatrix \in BOOLEAN :
        Apply("draw",
              IF stim.cls = ShapeStim
              THEN ShapeStim_draw(stim, win, keepMatrix)
              ELSE BaseShapeStim_draw(stim, win, keepMatrix),
              keepMatrix)

\* The geometry of a stimulus and its cache of pixel vertices.
Next ==
    \/ SetVertices
    \/ SetSize
    \/ SetPos
    \/ SetOri
    \/ SetUnits
    \/ ReadVerticesPix
    \/ Draw

Spec == Init /\ [][Next]_vars

\* The drawing of a stimulus of any style.
NextDraw ==
    \/ SetVertices
    \/ SetSize
    \/ SetLineWidth
    \/ SetInterpolate
    \/ Draw

SpecDraw == InitDraw /\ [][NextDraw]_vars

\* The tessellation of a ShapeStim.
NextTess ==
    \/ SetAnyVertices
    \/ SetSize
    \/ ReadVerticesPix
    \/ Draw

SpecTess == InitTess /\ [][NextTess]_vars

\* ShapeStims with and without a winding rule of their own.
WindingRules == {"GLU_TESS_WINDING_NONZERO", "GLU_TESS_WINDING_POSITIVE"}

WindingParams ==
    [closeShape : BOOLEAN, interpolate : {TRUE}, lineWidth : {2},
     fillColor : {"red"}, lineColor : {"black"}, vertices : {Tri, Line},
     colorSpace : {"rgb"}, isLine : {FALSE},
     windingRule : {None} \cup WindingRules]

InitWinding == \E p \in WindingParams : Constructed(ShapeStim, p, TRUE)

\* Another ShapeStim is constructed, which ends by assigning its vertices:
\* of its effects the model keeps those on the shared context.
ConstructOther ==
    \E p \in WindingParams :
        LET r == New(ShapeStim, p)
        IN /\ calls' = r.calls
           /\ pre' = gl
           /\ gl' = GLExec(gl, r.calls)
           /\ last' = [op |-> "other.__init__", exc |-> r.exc, ret |-> NoRet,
                       keepMatrix |-> FALSE,
                       dirty |-> TRUE,
                       closed |-> p.closeShape,
                       again |-> last.op = "other.__init__",
                       args |-> [windingRule |-> p.windingRule]]
           /\ coalesce' = NoCoalesce
           /\ run' = NoRun
           /\ UNCHANGED <<win, stim>>

NextWinding ==
    \/ SetAnyVertices
    \/ ConstructOther
    \/ ReadVerticesPix
    \/ Draw

SpecWinding == InitWinding /\ [][NextWinding]_vars

\* The operations on a ShapeStim between which closeShape is looked at.
InitClose ==
    \E p \in TessParams :
        /\ p.lineWidth = 2
        /\ p.lineColor = "black"
        /\ Constructed(ShapeStim, p, TRUE)

NextClose ==
    \/ SetAnyVertices
    \/ SetSize
    \/ SetLineWidth
    \/ AssignColor
    \/ Draw

SpecClose == InitClose /\ [][NextClose]_vars

\* The colours and the line width.
NextColor ==
    \/ AssignColor
    \/ SetColor
    \/ SetLineColor
    \/ SetFillColor
    \/ SetLineRGB
    \/ SetFillRGB
    \/ SetAnyLineWidth

SpecColor == InitColor /\ [][NextColor]_vars

-----------------------------------------------------------------------------
(* TargetStim *)

TargetStim == "TargetStim"

\* The named shapes "circle" and "cross".
Circle == Array("circle", <<4, 2>>, FALSE)
Cross == Array("cross", <<12, 2>>, FALSE)

\* A size of two equal components.
Square(d) == <<d, d>>

\* ShapeStim(win, vertices="circle", size=(0, 0), lineWidth=..., fillColor=...,
\* lineColor=...) as TargetStim.__init__ calls it.
TargetShape(lineWidth, fillColor, lineColor) ==
    BaseShapeStim_size(
        New(ShapeStim,
            [closeShape |-> TRUE, interpolate |-> TRUE, lineWidth |-> lineWidth,
             fillColor |-> fillColor, lineColor |-> lineColor, vertices |-> Circle,
             colorSpace |-> "rgb", isLine |-> FALSE, windingRule |-> None]).self,
        Square(0))

\* TargetStim.style
TargetStim_style(t, value) ==
    [t EXCEPT !.style = value,
              !.outer = ShapeStim_vertices(@, Circle).self,
              !.inner = ShapeStim_vertices(@, IF value = "cross" THEN Cross
                                              ELSE Circle).self]

\* TargetStim.outerRadius and TargetStim.innerRadius: the shape gets the
\* size of twice the radius in both components (the units are pixels).
TargetStim_outerRadius(t, value) ==
    [t EXCEPT !.outer = BaseShapeStim_size(@, Square(2 * value))]

TargetStim_innerRadius(t, value) ==
    [t EXCEPT !.inner = BaseShapeStim_size(@, Square(2 * value))]

\* TargetStim.__init__; innerLineWidth or lineWidth is the line width of the
\* inner shape (an innerLineWidth of 0 stands for None as well: both are
\* false).
TargetStim_init(p) ==
    TargetStim_style(
        TargetStim_innerRadius(
            TargetStim_outerRadius(
                [cls |-> TargetStim,
                 style |-> None,
                 outer |-> TargetShape(p.lineWidth, p.fillColor, p.borderColor),
                 inner |-> TargetShape(IF p.innerLineWidth # 0
                                       THEN p.innerLineWidth ELSE p.lineWidth,
                                       p.innerFillColor, p.innerBorderColor)],
                p.radius),
            p.innerRadius),
        p.style)

\* TargetStim.size: the outer size is assigned first, and the factor of the
\* inner size is then taken from the outer size that was just assigned.
\* The sizes of the model are whole numbers and every quotient is exact.
TargetStim_size(t, value) ==
    LET t1 == [t EXCEPT !.outer = BaseShapeStim_size(@, value)]
    IN [t1 EXCEPT !.inner = BaseShapeStim_size(@,
            <<(value[1] * t1.inner.size[1]) \div t1.outer.size[1],
              (value[2] * t1.inner.size[2]) \div t1.outer.size[2]>>)]

\* TargetStim.radius: the ratio of the radii is taken before the outer
\* radius is assigned.
TargetStim_radius(t, value) ==
    LET innerSize == (2 * value * t.inner.size[2]) \div t.outer.size[2]
    IN [t EXCEPT !.outer = BaseShapeStim_size(@, Square(2 * value)),
                 !.inner = BaseShapeStim_size(@, Square(innerSize))]

\* TargetStim.foreColor: sets whichever colours of the inner shape are not
\* None, the border after the fill.
TargetStim_foreColor(t, value) ==
    LET t1 == IF t.inner.fillColor # None
              THEN [t EXCEPT !.inner.fillColor = value] ELSE t
    IN IF t1.inner.lineColor # None
       THEN [t1 EXCEPT !.inner.lineColor = value] ELSE t1

\* Color.__bool__: a colour is true unless it is None (transparent).
ColorPresent(c) == c # None

\* An export that hands the colours of the shapes on as they are.
TargetStim_iter_raw(t, w) ==
    [outer_diameter |-> (t.outer.size[2] \div 2) * 2,
     outer_stroke_width |-> t.outer.lineWidth,
     outer_fill_color |-> t.outer.fillColor,
     outer_line_color |-> t.outer.lineColor,
     inner_diameter |-> (t.inner.size[2] \div 2) * 2,
     inner_stroke_width |-> t.inner.lineWidth,
     inner_fill_color |-> t.inner.fillColor,
     inner_line_color |-> t.inner.lineColor]

\* TargetStim.__iter__, as dict(target) collects it.
TargetStim_iter(t, w) ==
    LET fillColor == IF ColorPresent(t.outer.fillColor)
                     THEN t.outer.fillColor ELSE w.color
        borderColor == IF ColorPresent(t.outer.lineColor)
                       THEN t.outer.lineColor ELSE w.color
        innerFillColor == IF ColorPresent(t.inner.fillColor)
                          THEN t.inner.fillColor ELSE fillColor
        innerBorderColor == IF ColorPresent(t.inner.lineColor)
                            THEN t.inner.lineColor ELSE borderColor
    IN [outer_diameter |-> (t.outer.size[2] \div 2) * 2,
        outer_stroke_width |-> t.outer.lineWidth,
        outer_fill_color |-> fillColor,
        outer_line_color |-> borderColor,
        inner_diameter |-> (t.inner.size[2] \div 2) * 2,
        inner_stroke_width |-> t.inner.lineWidth,
        inner_fill_color |-> innerFillColor,
        inner_line_color |-> innerBorderColor]

\* The arguments of TargetStim.__init__ and the colours of the window.
WindowColors == {"black", "white"}
Radii == {1, 2}
MaxSize == 8

TargetParams ==
    [radius : {2}, innerRadius : {1},
     fillColor : {None, "white"}, borderColor : {None, "white"},
     innerFillColor : {None, "red"}, innerBorderColor : {None, "red"},
     lineWidth : {2}, innerLineWidth : {0, 3}, style : {"circles", "cross"}]

InitTarget ==
    \E p \in TargetParams, c \in WindowColors :
        /\ win = [haveShaders |-> TRUE, color |-> c]
        /\ stim = TargetStim_init(p)
        /\ gl = GLInit
        /\ calls = <<>>
        /\ pre = GLInit
        /\ last = [op |-> "TargetStim.__init__", exc |-> None, ret |-> NoRet,
                   keepMatrix |-> FALSE, dirty |-> TRUE, closed |-> TRUE,
                   again |-> FALSE, args |-> NoArgs]
        /\ coalesce = NoCoalesce
        /\ run = NoRun

\* One operation on the target, which returns ret and leaves it as t.
ApplyTarget(op, t, ret, args) ==
    /\ stim' = t
    /\ calls' = <<>>
    /\ pre' = gl
    /\ gl' = gl
    /\ last' = [op |-> op, exc |-> None, ret |-> ret,
                keepMatrix |-> FALSE,
                dirty |-> stim.outer.needVertexUpdate,
                closed |-> stim.outer.closeShape,
                again |-> last.op = op,
                args |-> args]
    /\ coalesce' = NoCoalesce
    /\ run' = NoRun
    /\ UNCHANGED win

\* The sizes assigned to a target: both components are not 0.
TargetSizes == {<<2, 2>>, <<4, 4>>, <<8, 4>>}

TargetSetSize ==
    \E value \in TargetSizes :
        ApplyTarget("TargetStim.size", TargetStim_size(stim, value), NoRet,
                    [value |-> value])

TargetSetRadius ==
    \E value \in Radii :
        /\ (2 * value * stim.inner.size[2]) % stim.outer.size[2] = 0
        /\ (2 * value * stim.inner.size[2]) \div stim.outer.size[2] <= MaxSize
        /\ ApplyTarget("TargetStim.radius", TargetStim_radius(stim, value), NoRet,
                       [value |-> value])

TargetSetForeColor ==
    \E value \in {None, "red", "white"} :
        ApplyTarget("TargetStim.foreColor", TargetStim_foreColor(stim, value), NoRet,
                    [value |-> value])

TargetIter ==
    ApplyTarget("TargetStim.__iter__", stim, TargetStim_iter(stim, win), NoArgs)

NextTarget ==
    \/ TargetSetSize
    \/ TargetSetRadius
    \/ TargetSetForeColor
    \/ TargetIter

SpecTarget == InitTarget /\ [][NextTarget]_vars

-----------------------------------------------------------------------------
(* The geometry cache *)

\* C1: dirty coalescing.  On a ShapeStim, once "assign vertices, assign size,
\* assign pos, read verticesPix" has run, the four operations together made
\* exactly one tessellation pass (_tesselate, which ran the tessellator once
\* if the shape was closed and not at all if it was open) and exactly one
\* transform pass (_updateVertices).
C1_DirtyCoalescing ==
    (stim.cls = ShapeStim /\ coalesce.phase = 4) =>
        /\ coalesce.tess = 1
        /\ coalesce.runs = (IF coalesce.closed THEN 1 ELSE 0)
        /\ coalesce.upd = 1

\* The sequence has run on a closed ShapeStim.
C1_Witness ==
    /\ stim.cls = ShapeStim
    /\ coalesce.phase = 4
    /\ coalesce.closed
    /\ stim.closeShape

\* C2: idempotent read.  On a ShapeStim a read of verticesPix recomputes if
\* and only if the shape is dirty, leaves it clean and returns the cached
\* array; a read that follows a read recomputes nothing and returns the array
\* the first read returned.
C2_IdempotentRead ==
    [][(stim'.cls = ShapeStim /\ last'.op = "verticesPix") =>
        /\ last'.exc = None
        /\ ~stim'.needVertexUpdate
        /\ Updates(calls') = (IF stim.needVertexUpdate THEN 1 ELSE 0)
        /\ last'.ret = stim'.verticesPix
        /\ (last.op = "verticesPix" =>
                /\ Updates(calls') = 0
                /\ last'.ret = last.ret)]_vars

\* A second read in a row has taken place, after a first one that recomputed.
C2_Witness ==
    /\ stim.cls = ShapeStim
    /\ last.op = "verticesPix"
    /\ last.again
    /\ Updates(calls) = 0
    /\ last.ret = stim.verticesPix

Mutators == {"vertices", "size", "pos", "ori", "units"}

\* The pixel arrays that a recomputation would store now.
Fresh(o) ==
    /\ o.verticesPix =
           convertToPix(IF o.cls = ShapeStim THEN o.tesselVertices ELSE o.vertices, o)
    /\ o.cls = ShapeStim => o.borderPix = convertToPix(o.border, o)

\* C3: dirty marking.  After any call of a mutator of vertices, size, pos,
\* ori or units the shape is dirty, and a shape that is marked clean holds
\* pixel vertices computed from its present vertices and transform.
C3_DirtyMarking ==
    /\ last.op \in Mutators => stim.needVertexUpdate
    /\ ~stim.needVertexUpdate => Fresh(stim)

\* C4, as the specification states it: a vertex assignment to a ShapeStim
\* runs no tessellation, and the assignments made in a row together with the
\* read that follows them run the tessellator once.
C4_DeferredTessellation ==
    stim.cls = ShapeStim =>
        /\ last.op = "vertices" => TessellatorRuns(calls) = 0
        /\ (last.op = "verticesPix" /\ run.k >= 1) =>
                run.runs + TessellatorRuns(calls) = 1

\* C4, amended: tessellation is eager.  A vertex assignment that a ShapeStim
\* accepts runs the tessellator once, in the assignment, if the shape is
\* closed and not at all if it is open; reading the pixel vertices and
\* drawing run no tessellation.  So the assignments made in a row have run
\* the tessellator once each while the shape was closed.
C4_EagerTessellation ==
    stim.cls = ShapeStim =>
        /\ (last.op = "vertices" /\ last.exc # "ValueError") =>
                TessellatorRuns(calls) = (IF last.closed THEN 1 ELSE 0)
        /\ last.op \in {"verticesPix", "draw"} => TessellatorRuns(calls) = 0
        /\ run.runs = run.closed

\* Two assignments in a row to a shape that stayed closed, then a read: the
\* tessellator has run twice.
C4_Witness ==
    /\ stim.cls = ShapeStim
    /\ last.op = "verticesPix"
    /\ stim.closeShape
    /\ run.k = 2
    /\ run.runs = 2

-----------------------------------------------------------------------------
(* Drawing *)

\* A draw call has returned.
Drawn == last.op = "draw" /\ last.exc = None

\* The positions in the calls of the last operation of: the calls of fn, the
\* fill primitives, the border primitives, the calls that set antialiasing.
At(fn) == {i \in 1..Len(calls) : calls[i].fn = fn}
AtCall(fn, arg) == {i \in At(fn) : calls[i].arg = arg}
FillAt == {i \in At("glDrawArrays") : calls[i].arg.mode \in {"GL_POLYGON", "GL_TRIANGLES"}}
BorderAt == {i \in At("glDrawArrays") : calls[i].arg.mode \in {"GL_LINE_LOOP", "GL_LINE_STRIP"}}
AntialiasAt ==
    {i \in At("glEnable") \cup At("glDisable") :
        calls[i].arg \in {"GL_LINE_SMOOTH", "GL_MULTISAMPLE"}}

Before(I, J) == \A i \in I, j \in J : i < j

\* C5: fill before border.  In every draw call that returns, the fill
\* primitives come before the border primitives, and both come after the
\* calls that set antialiasing and before the vertex state is disabled.
C5_FillBeforeBorder ==
    Drawn =>
        /\ Before(FillAt, BorderAt)
        /\ AntialiasAt # {}
        /\ Before(AntialiasAt, FillAt \cup BorderAt)
        /\ Cardinality(At("glDisableClientState")) = 1
        /\ Before(FillAt \cup BorderAt, At("glDisableClientState"))

\* A ShapeStim draw that submitted a fill and a border.
C5_Witness ==
    /\ Drawn
    /\ FillAt # {}
    /\ BorderAt # {}
    /\ stim.cls = ShapeStim

\* The context state that C6 names.
Shared(g) ==
    [program |-> g.program,
     depth |-> Len(g.matrix),
     texture2D |-> g.texture2D,
     boundTexture |-> g.boundTexture,
     lineSmooth |-> g.lineSmooth,
     multisample |-> g.multisample,
     vertexArray |-> g.vertexArray]

\* C6, as the specification states it: when a draw call returns, the shared
\* context state equals its value before the call.
C6_DrawRestoresContext == Drawn => Shared(gl) = Shared(pre)

\* C6, amended: when a draw call returns, the transform stack is as it was
\* before the call, the vertex-array client state is disabled and, on a
\* window with shaders, no program is bound (without shaders the program is
\* untouched); texturing is left enabled on units 0 and 1 with no texture
\* bound, and line smoothing and multisampling are left as the interpolate
\* attribute says, whatever they were before.  So this state after a draw
\* depends on the stimulus drawn and on the window only, not on the draws
\* that came before.
C6_DrawLeavesContext ==
    Drawn =>
        /\ gl.matrix = pre.matrix
        /\ ~gl.vertexArray
        /\ gl.program = (IF win.haveShaders THEN "0" ELSE pre.program)
        /\ gl.texture2D = <<TRUE, TRUE>>
        /\ gl.boundTexture = <<"0", "0">>
        /\ gl.lineSmooth = stim.interpolate
        /\ gl.multisample = stim.interpolate

\* A draw that changed the antialiasing state a previous draw had left.
C6_Witness ==
    /\ Drawn
    /\ pre.texture2D = <<TRUE, TRUE>>
    /\ pre.lineSmooth # gl.lineSmooth
    /\ pre.multisample # gl.multisample

\* C7: balanced transform stack.  A draw call without keepMatrix pushes the
\* stack once, sets the scale to 'pix' once, after the push, and pops once,
\* as its last call; a draw call with keepMatrix does none of these.  After
\* any draw call the stack is as deep as before it.
C7_BalancedStack ==
    last.op = "draw" =>
        /\ Len(gl.matrix) = Len(pre.matrix)
        /\ (Drawn /\ ~last.keepMatrix) =>
                /\ Cardinality(At("glPushMatrix")) = 1
                /\ Cardinality(At("win.setScale")) = 1
                /\ AtCall("win.setScale", "pix") = At("win.setScale")
                /\ Before(At("glPushMatrix"), At("win.setScale"))
                /\ At("glPopMatrix") = {Len(calls)}
        /\ (Drawn /\ last.keepMatrix) =>
                /\ At("glPushMatrix") = {}
                /\ At("win.setScale") = {}
                /\ At("glPopMatrix") = {}

\* A draw without keepMatrix has returned, on a stack of depth 1.
C7_Witness ==
    /\ Drawn
    /\ ~last.keepMatrix
    /\ Len(pre.matrix) = 1
    /\ At("glPopMatrix") # {}

\* C8, as the specification states it: with shaders and without keepMatrix,
\* every draw binds the program before it pushes the stack and unbinds it
\* before it pops the stack.
C8_DrawStepOrder ==
    (Drawn /\ win.haveShaders /\ ~last.keepMatrix) =>
        /\ Before(AtCall("glUseProgram", "_progSignedFrag"), At("glPushMatrix"))
        /\ Before(AtCall("glUseProgram", "0"), At("glPopMatrix"))

\* C8, amended: with shaders and without keepMatrix, BaseShapeStim.draw binds
\* the program before it pushes the stack, ShapeStim.draw pushes the stack
\* and sets the scale before it binds the program, and both unbind the
\* program before they pop the stack.
C8_DrawStepOrderByClass ==
    (Drawn /\ win.haveShaders /\ ~last.keepMatrix) =>
        /\ Cardinality(AtCall("glUseProgram", "_progSignedFrag")) = 1
        /\ Cardinality(AtCall("glUseProgram", "0")) = 1
        /\ stim.cls = BaseShapeStim =>
                Before(AtCall("glUseProgram", "_progSignedFrag"), At("glPushMatrix"))
        /\ stim.cls = ShapeStim =>
                Before(At("glPushMatrix") \cup At("win.setScale"),
                       AtCall("glUseProgram", "_progSignedFrag"))
        /\ Before(AtCall("glUseProgram", "0"), At("glPopMatrix"))

\* A ShapeStim draw with shaders and without keepMatrix.
C8_Witness ==
    /\ Drawn
    /\ win.haveShaders
    /\ ~last.keepMatrix
    /\ stim.cls = ShapeStim
    /\ At("glPushMatrix") # {}

\* The number of pixel vertices that a read of verticesPix returns.
PixCount == stim.verticesPix.of.shape[1]

\* C9, as the specification states it: a draw call that returns has
\* submitted a fill if and only if there are more than 2 pixel vertices and
\* a fill colour.
C9_FillCondition ==
    (Drawn /\ ~stim.needVertexUpdate) =>
        (FillAt # {} <=> (PixCount > 2 /\ stim.fillColor # None))

\* C9, amended: BaseShapeStim.draw submits a fill if and only if there are
\* more than 2 pixel vertices and a fill colour; ShapeStim.draw submits one
\* if and only if, besides, closeShape is true.
C9_FillConditionByClass ==
    Drawn =>
        /\ (stim.cls = BaseShapeStim \/ stim.closeShape) =>
                /\ ~stim.needVertexUpdate
                /\ FillAt # {} <=> (PixCount > 2 /\ stim.fillColor # None)
                /\ \A i \in FillAt : calls[i].arg.count = PixCount
        /\ (stim.cls = ShapeStim /\ ~stim.closeShape) => FillAt = {}
        /\ Cardinality(FillAt) <= 1

\* An open ShapeStim with three pixel vertices and a fill colour was drawn.
C9_Witness ==
    /\ Drawn
    /\ stim.cls = ShapeStim
    /\ ~stim.closeShape
    /\ ~stim.needVertexUpdate
    /\ PixCount > 2
    /\ stim.fillColor # None

\* C10: border condition.  A draw call that returns has submitted a border
\* if and only if there is a border colour and the line width is not 0; the
\* border is one primitive, a line loop if closeShape is true and a line
\* strip if not, and the line width set before it is the line width of the
\* stimulus.
C10_BorderCondition ==
    Drawn =>
        /\ BorderAt # {} <=> (stim.lineColor # None /\ stim.lineWidth # 0)
        /\ Cardinality(BorderAt) <= 1
        /\ \A i \in BorderAt :
                /\ calls[i].arg.mode =
                       (IF stim.closeShape THEN "GL_LINE_LOOP" ELSE "GL_LINE_STRIP")
                /\ AtCall("glLineWidth", stim.lineWidth) # {}
                /\ At("glLineWidth") = AtCall("glLineWidth", stim.lineWidth)
                /\ Before(At("glLineWidth"), {i})

\* An open stimulus was drawn with a border.
C10_Witness ==
    /\ Drawn
    /\ ~stim.closeShape
    /\ BorderAt # {}

-----------------------------------------------------------------------------
(* Tessellation *)

\* The tessellator ran in the last operation and returned an empty list, or
\* a list that is no whole number of triangles.
TessellatedTo(P(_)) ==
    \E i \in At("tesselate.tesselate") : P(tesselate(calls[i].arg).shape[1])
IsEmpty(n) == n = 0
IsCorrupt(n) == n % 3 # 0

\* C11: open shapes are never tessellated.  Whatever vertices a ShapeStim
\* whose closeShape is false accepts, at construction or in an assignment,
\* the tessellator is not run, the shape stays open, and what is stored for
\* the fill is the raw loop, not triangles; no draw of an open ShapeStim
\* submits a fill.
C11_OpenNeverTessellated ==
    /\ (last.op \in {"__init__", "vertices"} /\ ~last.closed) =>
            /\ TessellatorRuns(calls) = 0
            /\ ~stim.closeShape
            /\ ~stim.tesselVertices.tess
            /\ Tessellations(calls) > 0 =>
                    /\ last.exc = None
                    /\ stim.tesselVertices = stim.vertices
    /\ (Drawn /\ ~stim.closeShape) => FillAt = {}

\* An open ShapeStim was assigned a triangle.
C11_Witness ==
    /\ last.op = "vertices"
    /\ ~last.closed
    /\ stim.vertices = Tri
    /\ stim.tesselVertices = Tri

\* C12: degrade on empty tessellation.  When the tessellator returns no
\* triangle for the vertices assigned to a closed ShapeStim, the assignment
\* does not raise and leaves the shape open, with the raw loop stored and no
\* triangles; an open ShapeStim stays open under every operation, and every
\* draw of it submits no fill and submits its border as a line strip.
C12_DegradeOnEmpty ==
    /\ [](/\ (last.op = "vertices" /\ last.closed /\ TessellatedTo(IsEmpty)) =>
                /\ last.exc = None
                /\ ~stim.closeShape
                /\ ~stim.tesselVertices.tess
          /\ (last.op = "draw" /\ ~stim.closeShape) =>
                /\ last.exc = None
                /\ FillAt = {}
                /\ \A i \in BorderAt : calls[i].arg.mode = "GL_LINE_STRIP")
    /\ [][~stim.closeShape => ~stim'.closeShape]_vars

\* A closed ShapeStim was assigned collinear points.
C12_Witness ==
    /\ last.op = "vertices"
    /\ last.closed
    /\ TessellatedTo(IsEmpty)
    /\ stim.vertices = Collinear
    /\ ~stim.closeShape

\* C13: tessellation failure.  When the tessellator returns a list that is
\* not empty and no whole number of triangles, the assignment raises
\* TesselateError and the list is not stored; a closed ShapeStim always holds
\* tessellated fill vertices whose number is a multiple of 3.
C13_TessellationFailure ==
    /\ (last.op = "vertices" /\ TessellatedTo(IsCorrupt)) =>
            /\ last.exc = "TesselateError"
            /\ stim.tesselVertices.shape[1] % 3 = 0
    /\ stim.closeShape =>
            /\ stim.tesselVertices.tess
            /\ stim.tesselVertices.shape[1] % 3 = 0
    /\ last.exc = "TesselateError" => TessellatedTo(IsCorrupt)

\* An assignment to a closed ShapeStim has failed in the tessellation.
C13_Witness ==
    /\ last.op = "vertices"
    /\ last.exc = "TesselateError"
    /\ stim.closeShape
    /\ stim.tesselVertices.shape[1] = 3

\* C15, as the specification states it: a ShapeStim accepts the single point
\* [(0, 0)], and no draw of it raises, fills or submits a border.
C15_SinglePoint ==
    /\ AtCall("_tesselate", Point) # {} =>
            (last.exc = None /\ stim.vertices = Point)
    /\ (last.op = "draw" /\ stim.vertices = Point) =>
            (last.exc = None /\ FillAt = {} /\ BorderAt = {})

\* C15, amended: a ShapeStim accepts the single point [(0, 0)] and is left
\* open by it; no draw of it raises or fills, and a draw submits a border,
\* a line strip of one vertex, if and only if there is a border colour and
\* the line width is not 0.
C15_SinglePointBorder ==
    /\ AtCall("_tesselate", Point) # {} =>
            (last.exc = None /\ stim.vertices = Point /\ ~stim.closeShape)
    /\ (last.op = "draw" /\ stim.vertices = Point) =>
            /\ last.exc = None
            /\ FillAt = {}
            /\ BorderAt # {} <=> (stim.lineColor # None /\ stim.lineWidth # 0)
            /\ \A i \in BorderAt :
                    calls[i].arg = [mode |-> "GL_LINE_STRIP", first |-> 0, count |-> 1]

\* A ShapeStim that holds the single point and has a fill colour was drawn
\* and submitted a border.
C15_Witness ==
    /\ stim.vertices = Point
    /\ Drawn
    /\ BorderAt # {}
    /\ stim.fillColor # None

-----------------------------------------------------------------------------
(* Rejected input *)

\* The shapes of vertex arrays that the classes accept: one point, or N x 2.
ValidShape(v) == v.shape = <<2>> \/ (Len(v.shape) = 2 /\ v.shape[2] = 2)

\* C14: invalid vertex input is rejected at assignment.  For both classes the
\* stored vertices are always of a valid shape: no assignment, raising or
\* not, puts an array of another shape into the shape's vertices.
C14_InvalidRejected == ValidShape(stim.vertices)

-----------------------------------------------------------------------------
(* Size *)

\* C20: a size change does not re-tessellate.  Assigning size to a ShapeStim
\* stores the size and marks the shape dirty, and does nothing else: no
\* tessellation is run, no collaborator is called, and the raw vertices, the
\* border, the tessellated fill vertices and closeShape are as before.
C20_SizeKeepsTessellation ==
    [][(stim.cls = ShapeStim /\ last'.op = "size") =>
            /\ last'.exc = None
            /\ calls' = <<>>
            /\ stim'.needVertexUpdate
            /\ \E value \in Sizes :
                  stim' = [stim EXCEPT !.size = value, !.needVertexUpdate = TRUE]
            /\ stim'.vertices = stim.vertices
            /\ stim'.border = stim.border
            /\ stim'.tesselVertices = stim.tesselVertices
            /\ stim'.closeShape = stim.closeShape]_vars

\* The size of a clean, closed ShapeStim that holds triangles was changed.
C20_Witness ==
    /\ stim.cls = ShapeStim
    /\ last.op = "size"
    /\ stim.size = 2
    /\ stim.closeShape
    /\ stim.tesselVertices.tess
    /\ stim.needVertexUpdate
    /\ stim.verticesPix # NoPix
    /\ stim.verticesPix.size = 1

-----------------------------------------------------------------------------
(* Colours and line width *)

ColorMethods == {"setFillColor", "setLineColor", "setColor", "setFillRGB", "setLineRGB"}

\* The last operation was a call of one of the methods in ms with an
\* operation that is none of '', '=', '+', '-'.
UnknownOperation(ms) ==
    /\ last.op \in ms
    /\ last.args.operation \notin KnownOperations

\* C16: unsupported colour operator.  A call of setFillColor, setLineColor,
\* setColor, setFillRGB or setLineRGB with an operation that is none of '',
\* '=', '+', '-' does not raise, reports an error through logging, and leaves
\* the fill colour and the border colour as they were.
C16_UnsupportedOperation ==
    [][UnknownOperation(ColorMethods)' =>
            /\ last'.exc = None
            /\ calls' # <<>>
            /\ \A i \in 1..Len(calls') :
                    /\ calls'[i].fn = "logging.error"
                    /\ calls'[i].arg = last'.args.operation
            /\ stim'.fillColor = stim.fillColor
            /\ stim'.lineColor = stim.lineColor]_vars

\* setFillRGB was called with the operation '*' on a shape with a fill
\* colour and a border colour.
C16_Witness ==
    /\ last.op = "setFillRGB"
    /\ last.args.operation = "*"
    /\ last.args.value = <<0, 255, 255>>
    /\ stim.fillColor = "red"
    /\ stim.lineColor = "black"
    /\ Count(calls, "logging.error") = 1

\* C17: an unsupported colour operator is a no-op.  A call of setFillColor or
\* setLineColor with an operation that is none of '', '=', '+', '-' leaves the
\* whole state of the shape, the colour space included, as it was, whatever
\* colorSpace argument is passed.
C17_UnsupportedOperationNoOp ==
    [][UnknownOperation({"setFillColor", "setLineColor"})' => stim' = stim]_vars

\* C18: unified colour.  Assigning the color attribute, and calling setColor
\* with the operation '' or '=', set the fill colour and the border colour to
\* the colour given.
C18_UnifiedColor ==
    (\/ last.op = "color"
     \/ (last.op = "setColor" /\ last.args.operation \in {"", "="})) =>
        /\ last.exc = None
        /\ stim.fillColor = last.args.color
        /\ stim.lineColor = last.args.color

\* setColor has given the fill and the border of a shape the colour white.
C18_Witness ==
    /\ last.op = "setColor"
    /\ last.args.operation = "="
    /\ last.args.color = "white"
    /\ stim.fillColor = "white"
    /\ stim.lineColor = "white"

\* C19, as the specification states it: setting the line width of any shape
\* to more than 127 does not raise, logs a warning and stores the value
\* given.
C19_WidthWarning ==
    (last.op = "lineWidth" /\ last.args.value > MaxLineWidth) =>
        /\ last.exc = None
        /\ Count(calls, "logging.warning") = 1
        /\ stim.lineWidth = last.args.value

\* C19, amended: setting the line width of any shape does not raise and
\* stores the value given, also when it is more than 127; a warning is logged
\* if and only if the value is more than 127 and the shape is a
\* psychopy.visual.Line.
C19_WidthWarningForLine ==
    last.op = "lineWidth" =>
        /\ last.exc = None
        /\ stim.lineWidth = last.args.value
        /\ Count(calls, "logging.warning") =
                (IF stim.isLine /\ last.args.value > MaxLineWidth THEN 1 ELSE 0)

\* The line width of a Line was set to 200.
C19_Witness ==
    /\ last.op = "lineWidth"
    /\ last.args.value = 200
    /\ stim.isLine
    /\ stim.lineWidth = 200
    /\ Count(calls, "logging.warning") = 1

-----------------------------------------------------------------------------
(* closeShape over time *)

EmptyTessellation ==
    /\ last.op \in {"__init__", "vertices"}
    /\ last.exc = None
    /\ TessellatedTo(IsEmpty)

C23_BorderTracksRaw ==
    (stim.cls = ShapeStim /\ last.op = "vertices" /\ last.exc = None) =>
        /\ stim.vertices = last.args.value
        /\ stim.border = last.args.value
        /\ stim.tesselVertices =
                (IF stim.closeShape THEN tesselate(last.args.value)
                 ELSE last.args.value)

\* A triangle was assigned to a closed ShapeStim right after another vertex
\* assignment.
C23_Witness ==
    /\ last.op = "vertices"
    /\ last.exc = None
    /\ last.again
    /\ last.args.value = Tri
    /\ stim.closeShape
    /\ stim.border = Tri
    /\ stim.tesselVertices = tesselate(Tri)

\* C25: open is absorbing under vertex assignment.  Once closeShape of a
\* ShapeStim is false no operation sets it to true, no vertex assignment runs
\* the tessellator, and no draw submits a fill, whatever is assigned.
C25_OpenIsAbsorbing ==
    [][(stim.cls = ShapeStim /\ ~stim.closeShape) =>
            /\ ~stim'.closeShape
            /\ TessellatorRuns(calls') = 0
            /\ (\A i \in 1..Len(calls') :
                    calls'[i].fn = "glDrawArrays" =>
                        calls'[i].arg.mode \notin {"GL_POLYGON", "GL_TRIANGLES"})]_vars

\* Two vertex assignments in a row: the first met a closed shape and opened
\* it, the second assigned a triangle, which left it open.
C25_Witness ==
    /\ last.op = "vertices"
    /\ run.k = 2
    /\ run.closed = 1
    /\ stim.vertices = Tri
    /\ stim.fillColor # None
    /\ ~stim.closeShape
    /\ ~stim.tesselVertices.tess

\* C26: the state is unchanged on a failed assignment.  When a vertex
\* assignment raises, the raw vertices, the border, the fill vertices and the
\* dirty flag of the shape are as they were before the call.
C26_FailedAssignmentKeepsState ==
    [][(last'.op = "vertices" /\ last'.exc # None) =>
            /\ stim'.vertices = stim.vertices
            /\ stim'.border = stim.border
            /\ stim'.tesselVertices = stim.tesselVertices
            /\ stim'.needVertexUpdate = stim.needVertexUpdate]_vars

-----------------------------------------------------------------------------
(* The shared tessellator *)

\* The winding rule of the shape whose vertices the last operation assigned.
RuleOfShape ==
    IF last.op = "other.__init__" THEN last.args.windingRule ELSE stim.windingRule

\* The winding rule on the tessellator before call i of the last operation.
RuleAt(i) == GLExec(pre, SubSeq(calls, 1, i - 1)).windingRule

\* C24: the winding rule of the shared tessellator is restored.  After every
\* vertex assignment on any ShapeStim, with or without a windingRule of its
\* own, the tessellator has the default rule; and in every interleaving of
\* the assignments of several shapes each tessellation runs under the rule
\* of its shape, or under the default rule when the shape has none.
C24_WindingRuleRestored ==
    /\ gl.windingRule = default_winding_rule
    /\ \A i \in At("tesselate.tesselate") :
            RuleAt(i) = (IF RuleOfShape # None THEN RuleOfShape
                         ELSE default_winding_rule)

\* The vertices of a closed shape with the rule NONZERO were assigned and
\* tessellated.
C24_Witness ==
    /\ last.op = "vertices"
    /\ last.exc = None
    /\ stim.windingRule = "GLU_TESS_WINDING_NONZERO"
    /\ At("tesselate.tesselate") # {}
    /\ Count(calls, "gluTessProperty") = 2
    /\ gl.windingRule = default_winding_rule

-----------------------------------------------------------------------------
(* TargetStim *)

C27_ResizeKeepsProportions ==
    [][last'.op = "TargetStim.size" =>
            /\ stim'.outer.size = last'.args.value
            /\ \A k \in {1, 2} :
                    stim'.inner.size[k] * stim.outer.size[k] =
                        last'.args.value[k] * stim.inner.size[k]]_vars

====
